---------------------------- MODULE Spec2Model ----------------------------
(***************************************************************************)
(* State-machine model of interpolate_camera_poses.py: load_camera_poses,  *)
(* the prefix filter of main, interpolate_poses, the conversion to camera  *)
(* records and save_camera_poses.                                          *)
(*                                                                         *)
(* Representation of Python values:                                        *)
(*   None            [t |-> "None"]                                        *)
(*   str             [t |-> "str", s |-> <<c1, ..., cn>>], the characters  *)
(*                   given by their code points (the digit d stands for    *)
(*                   the character "d")                                    *)
(*   JSON number     [t |-> "num", v |-> n]                                *)
(*   JSON array      [t |-> "list", v |-> <<e1, ..., en>>]                 *)
(*   4x4 ndarray     a tuple of 4 rows of 4 integers                       *)
(*   Rigid3d         [t |-> "rigid", rotation |-> R, translation |-> p]    *)
(* dt is held in halves (dt = 1 stands for 0.5), so that dt * fps is exact.*)
(***************************************************************************)
EXTENDS Integers, Sequences, FiniteSets, TLC

VARIABLES
    fileState,          \* the input file: "ok", "missing" or "malformed"
    data,               \* the JSON array json.load returns for an "ok" file
    ref_video_prefix,   \* main: ref_video_prefix
    dt,                 \* main: dt, in halves
    fps,                \* main: fps
    pc,                 \* position in the pipeline
    err,                \* the exception that ended the run, "" when none
    k,                  \* load_camera_poses: index of the next item of data
    name_to_tcw,        \* load_camera_poses / main: the dict, in insertion order
    ref_video_poses,    \* main: the filtered list handed to interpolate_poses
    interpolated_poses, \* interpolate_poses: the list being built
    i,                  \* interpolate_poses: outer loop index
    j,                  \* interpolate_poses: inner loop index
    num_frames,         \* interpolate_poses: int(dt * fps)
    pre_pose,           \* interpolate_poses: Rigid3d of poses[i]
    next_pose,          \* interpolate_poses: Rigid3d of poses[i+1]
    idx,                \* main: enumerate index of the conversion loop
    cameras,            \* main: the list of camera dicts
    output_file         \* content of the output file

vars == <<fileState, data, ref_video_prefix, dt, fps, pc, err, k, name_to_tcw,
          ref_video_poses, interpolated_poses, i, j, num_frames, pre_pose,
          next_pose, idx, cameras, output_file>>

----------------------------------------------------------------------------
(* Bounds and configuration constants *)

MaxRecords == 3
MaxPoses == 3
MaxDt == 2
MaxFps == 4

width == 1440
height == 1920
fov_degrees == 80
dt_config == 1
fps_config == 30

----------------------------------------------------------------------------
(* Python values *)

None == [t |-> "None"]
Str(s) == [t |-> "str", s |-> s]
Num(n) == [t |-> "num", v |-> n]
List(s) == [t |-> "list", v |-> s]

IsNone(x) == x.t = "None"

SeqMin(a, b) == IF a < b THEN a ELSE b

RECURSIVE DecimalValue(_)
DecimalValue(s) ==
    IF s = <<>> THEN 0 ELSE 10 * DecimalValue(SubSeq(s, 1, Len(s) - 1)) + s[Len(s)]

\* a variant that compares the names as numbers
StrLessNumeric(a, b) == DecimalValue(a) < DecimalValue(b)

\* str.__lt__: lexicographic comparison by code point
StrLess(a, b) ==
    LET m == SeqMin(Len(a), Len(b))
        Diff == {p \in 1..m : a[p] # b[p]}
    IN  IF Diff = {}
        THEN Len(a) < Len(b)
        ELSE LET p == CHOOSE q \in Diff : \A r \in Diff : q <= r
             IN  a[p] < b[p]

\* a variant that tests for a suffix
EndsWith(name, prefix) ==
    /\ Len(prefix) <= Len(name)
    /\ \A p \in 1..Len(prefix) : name[Len(name) - Len(prefix) + p] = prefix[p]

\* str.startswith
StartsWith(name, prefix) ==
    /\ Len(prefix) <= Len(name)
    /\ \A p \in 1..Len(prefix) : name[p] = prefix[p]

\* dict.get of a JSON object, modelled as a function on the keys present
Get(item, key) == IF key \in DOMAIN item THEN item[key] ELSE None

----------------------------------------------------------------------------
(* numpy: shapes, broadcasting assignment, inverse *)

IsNumList(x) == x.t = "list" /\ \A p \in 1..Len(x.v) : x.v[p].t = "num"

\* np.array(x).shape; <<-1>> stands for the 0-d object array np.array(None)
Shape(x) ==
    IF x.t = "None" THEN <<-1>>
    ELSE IF x.t = "num" THEN <<>>
    ELSE IF IsNumList(x) THEN <<Len(x.v)>>
    ELSE <<Len(x.v), Len(x.v[1].v)>>

\* whether an array of shape s broadcasts to shape <<3, 3>> resp. <<3>>
Broadcasts33(s) ==
    \/ s = <<>>
    \/ Len(s) = 1 /\ s[1] \in {1, 3}
    \/ Len(s) = 2 /\ s[1] \in {1, 3} /\ s[2] \in {1, 3}

Broadcasts3(s) ==
    \/ s = <<>>
    \/ Len(s) = 1 /\ s[1] \in {1, 3}

\* element (r, c) of np.array(x) broadcast to 3x3
Elem33(x, r, c) ==
    IF x.t = "num" THEN x.v
    ELSE IF IsNumList(x) THEN x.v[IF Len(x.v) = 1 THEN 1 ELSE c].v
    ELSE LET row == x.v[IF Len(x.v) = 1 THEN 1 ELSE r]
         IN  row.v[IF Len(row.v) = 1 THEN 1 ELSE c].v

\* element r of np.array(x) broadcast to length 3
Elem3(x, r) ==
    IF x.t = "num" THEN x.v ELSE x.v[IF Len(x.v) = 1 THEN 1 ELSE r].v

Det3(R) ==
      R[1][1] * (R[2][2] * R[3][3] - R[2][3] * R[3][2])
    - R[1][2] * (R[2][1] * R[3][3] - R[2][3] * R[3][1])
    + R[1][3] * (R[2][1] * R[3][2] - R[2][2] * R[3][1])

Adj3(R) ==
    << << R[2][2] * R[3][3] - R[2][3] * R[3][2],
          R[1][3] * R[3][2] - R[1][2] * R[3][3],
          R[1][2] * R[2][3] - R[1][3] * R[2][2] >>,
       << R[2][3] * R[3][1] - R[2][1] * R[3][3],
          R[1][1] * R[3][3] - R[1][3] * R[3][1],
          R[1][3] * R[2][1] - R[1][1] * R[2][3] >>,
       << R[2][1] * R[3][2] - R[2][2] * R[3][1],
          R[1][2] * R[3][1] - R[1][1] * R[3][2],
          R[1][1] * R[2][2] - R[1][2] * R[2][1] >> >>

Transpose3(R) == [r \in 1..3 |-> [c \in 1..3 |-> R[c][r]]]

MatVec3(R, p) ==
    [r \in 1..3 |-> R[r][1] * p[1] + R[r][2] * p[2] + R[r][3] * p[3]]

Neg3(p) == [r \in 1..3 |-> 0 - p[r]]

\* poses[i][:3, :3] and poses[i][:3, 3]
Rot(m) == [r \in 1..3 |-> [c \in 1..3 |-> m[r][c]]]
Trans(m) == [r \in 1..3 |-> m[r][4]]

\* the 4x4 matrix with rotation block R and translation column p
Homogeneous(R, p) ==
    [r \in 1..4 |->
        [c \in 1..4 |->
            IF r = 4 THEN (IF c = 4 THEN 1 ELSE 0)
            ELSE IF c = 4 THEN p[r] ELSE R[r][c]]]

\* np.linalg.inv of a matrix whose last row is (0, 0, 0, 1) and whose
\* 3x3 block has determinant 1 or -1 (the inverse is then integral)
LinalgInv(m) ==
    LET R == Rot(m)
        d == Det3(R)
        A == Adj3(R)
        Ri == [r \in 1..3 |-> [c \in 1..3 |-> d * A[r][c]]]
        p == Neg3(MatVec3(Ri, Trans(m)))
    IN  Homogeneous(Ri, p)

\* lines 77-80 for one item: the exception raised, "" when none
ItemError(item) ==
    LET rotation == Get(item, "rotation")
        position == Get(item, "position")
    IN  IF IsNone(rotation) THEN "TypeError"
        ELSE IF ~Broadcasts33(Shape(rotation)) THEN "ValueError"
        ELSE IF IsNone(position) THEN "TypeError"
        ELSE IF ~Broadcasts3(Shape(position)) THEN "ValueError"
        ELSE IF Det3([r \in 1..3 |-> [c \in 1..3 |-> Elem33(rotation, r, c)]]) = 0
             THEN "LinAlgError"
        ELSE ""

\* lines 77-80 for one item that raises nothing: tcw
ItemTcw(item) ==
    LET rotation == Get(item, "rotation")
        position == Get(item, "position")
        twc == Homogeneous([r \in 1..3 |-> [c \in 1..3 |-> Elem33(rotation, r, c)]],
                           [r \in 1..3 |-> Elem3(position, r)])
    IN  LinalgInv(twc)

----------------------------------------------------------------------------
(* dict with insertion order: a sequence of [key, value] *)

HasKey(d, key) == \E p \in 1..Len(d) : d[p].key = key

\* a variant that keeps the first value of a key
DictSetDefault(d, key, value) ==
    IF HasKey(d, key) THEN d ELSE Append(d, [key |-> key, value |-> value])

\* d[key] = value: an existing key keeps its place
DictSet(d, key, value) ==
    IF HasKey(d, key)
    THEN [p \in 1..Len(d) |->
            IF d[p].key = key THEN [key |-> key, value |-> value] ELSE d[p]]
    ELSE Append(d, [key |-> key, value |-> value])

RECURSIVE Insert(_, _)
Insert(sorted, e) ==
    IF sorted = <<>> THEN <<e>>
    ELSE IF StrLess(e.key.s, Head(sorted).key.s) THEN <<e>> \o sorted
    ELSE <<Head(sorted)>> \o Insert(Tail(sorted), e)

\* sorted(name_to_tcw.items(), key=lambda item: item[0]) on str keys (stable)
RECURSIVE SortedItems(_)
SortedItems(d) ==
    IF d = <<>> THEN <<>>
    ELSE Insert(SortedItems(SubSeq(d, 1, Len(d) - 1)), d[Len(d)])

\* the sort compares a None key with a str key
SortRaises(d) == Len(d) >= 2 /\ \E p \in 1..Len(d) : IsNone(d[p].key)

----------------------------------------------------------------------------
(* Input values *)

JVec(p) == List([r \in 1..Len(p) |-> Num(p[r])])
JMat(R) == List([r \in 1..Len(R) |-> JVec(R[r])])

Identity3 == << <<1, 0, 0>>, <<0, 1, 0>>, <<0, 0, 1>> >>
RotZ90 == << <<0, -1, 0>>, <<1, 0, 0>>, <<0, 0, 1>> >>

Names == {<<1>>, <<1, 0>>, <<2>>}
Prefixes == {<<>>, <<1>>, <<2>>}
Rotations == {Identity3, RotZ90}
Positions == {<<0, 0, 0>>, <<1, 2, 3>>}

Item(name, position, rotation) ==
    [img_name |-> Str(name), position |-> JVec(position), rotation |-> JMat(rotation)]

WellFormedItems ==
    {Item(n, p, R) : n \in Names, p \in Positions, R \in Rotations}

\* a record without img_name
NamelessItem ==
    [position |-> JVec(<<1, 2, 3>>), rotation |-> JMat(Identity3)]

\* records whose position is absent, a scalar, or of length 1 or 2
BadPositionItems ==
    {[img_name |-> Str(<<1>>), rotation |-> JMat(Identity3)]}
    \cup {[img_name |-> Str(<<1>>), position |-> x, rotation |-> JMat(Identity3)] :
            x \in {Num(5), JVec(<<5>>), JVec(<<1, 2>>)}}

\* records whose rotation is absent, flat of length 3, or 2x2
BadRotationItems ==
    {[img_name |-> Str(<<1>>), position |-> JVec(<<1, 2, 3>>)]}
    \cup {[img_name |-> Str(<<1>>), position |-> JVec(<<1, 2, 3>>), rotation |-> x] :
            x \in {JVec(<<1, 0, 0>>), JMat(<< <<1, 0>>, <<0, 1>> >>)}}

LoadItems == WellFormedItems \cup {NamelessItem} \cup BadPositionItems
             \cup BadRotationItems

\* the records of a pipeline run: one pose per name, and three malformed records
MainItems ==
    {Item(<<1>>, <<0, 0, 0>>, Identity3), Item(<<1, 0>>, <<1, 2, 3>>, Identity3),
     Item(<<2>>, <<1, 2, 3>>, RotZ90), NamelessItem,
     [img_name |-> Str(<<2>>), rotation |-> JMat(Identity3)],
     [img_name |-> Str(<<2>>), position |-> JVec(<<5>>), rotation |-> JMat(Identity3)]}

SeqsUpTo(S, n) == UNION {[1..m -> S] : m \in 0..n}

\* the transforms load_camera_poses yields for well-formed records
Tcws == {ItemTcw(it) : it \in WellFormedItems}

DtValues == -1..MaxDt
FpsValues == (-1..MaxFps) \cup {fps_config}

PreviousContent == <<[t |-> "previous"]>>
NoPose == [t |-> "unset"]

----------------------------------------------------------------------------
(* Initial states *)

InitLocals ==
    /\ err = ""
    /\ k = 0
    /\ i = 0
    /\ j = 0
    /\ num_frames = 0
    /\ pre_pose = NoPose
    /\ next_pose = NoPose
    /\ idx = 0
    /\ cameras = <<>>
    /\ interpolated_poses = <<>>
    /\ output_file = PreviousContent

InitFile(items) ==
    \/ fileState \in {"missing", "malformed"} /\ data = <<>>
    \/ fileState = "ok" /\ data \in SeqsUpTo(items, MaxRecords)

\* load_camera_poses on an arbitrary input file
InitLoad ==
    /\ InitFile(LoadItems)
    /\ ref_video_prefix = <<>>
    /\ dt = dt_config
    /\ fps = fps_config
    /\ pc = "start"
    /\ name_to_tcw = <<>>
    /\ ref_video_poses = <<>>
    /\ InitLocals

\* interpolate_poses on an arbitrary list of poses
InitInterp ==
    /\ fileState = "ok"
    /\ data = <<>>
    /\ ref_video_prefix = <<>>
    /\ dt \in DtValues
    /\ fps \in FpsValues
    /\ pc = "filtered"
    /\ name_to_tcw = <<>>
    /\ ref_video_poses \in SeqsUpTo(Tcws, MaxPoses)
    /\ InitLocals

\* main
Init ==
    /\ InitFile(MainItems)
    /\ ref_video_prefix \in Prefixes
    /\ dt = dt_config
    /\ fps \in FpsValues
    /\ pc = "start"
    /\ name_to_tcw = <<>>
    /\ ref_video_poses = <<>>
    /\ InitLocals

----------------------------------------------------------------------------
(* load_camera_poses *)

\* a variant that swallows the exception and goes on to the save step
RaiseAndContinue(e) ==
    /\ pc' = "interpolated"
    /\ err' = e

\* an exception: nothing catches it, the run ends
Raise(e) ==
    /\ pc' = "failed"
    /\ err' = e

\* lines 68-71: open, json.load, the empty dict
LoadOpen ==
    /\ pc = "start"
    /\ \/ fileState = "missing" /\ Raise("FileNotFoundError")
          /\ UNCHANGED <<k, name_to_tcw>>
       \/ fileState = "malformed" /\ Raise("JSONDecodeError")
          /\ UNCHANGED <<k, name_to_tcw>>
       \/ /\ fileState = "ok"
          /\ pc' = "load_loop"
          /\ k' = 1
          /\ name_to_tcw' = <<>>
          /\ UNCHANGED err
    /\ UNCHANGED <<fileState, data, ref_video_prefix, dt, fps, ref_video_poses,
                   interpolated_poses, i, j, num_frames, pre_pose, next_pose,
                   idx, cameras, output_file>>

\* lines 72-81: one iteration of the loop over data
LoadItem ==
    /\ pc = "load_loop"
    /\ k <= Len(data)
    /\ LET item == data[k]
           img_name == Get(item, "img_name")
       IN  IF ItemError(item) # ""
           THEN Raise(ItemError(item)) /\ UNCHANGED <<k, name_to_tcw>>
           ELSE /\ name_to_tcw' = DictSet(name_to_tcw, img_name, ItemTcw(item))
                /\ k' = k + 1
                /\ UNCHANGED <<pc, err>>
    /\ UNCHANGED <<fileState, data, ref_video_prefix, dt, fps, ref_video_poses,
                   interpolated_poses, i, j, num_frames, pre_pose, next_pose,
                   idx, cameras, output_file>>

\* line 83: return the dict sorted by key
LoadReturn ==
    /\ pc = "load_loop"
    /\ k > Len(data)
    /\ IF SortRaises(name_to_tcw)
       THEN Raise("TypeError") /\ UNCHANGED name_to_tcw
       ELSE /\ name_to_tcw' = SortedItems(name_to_tcw)
            /\ pc' = "loaded"
            /\ UNCHANGED err
    /\ UNCHANGED <<fileState, data, ref_video_prefix, dt, fps, k, ref_video_poses,
                   interpolated_poses, i, j, num_frames, pre_pose, next_pose,
                   idx, cameras, output_file>>

NextLoad == LoadOpen \/ LoadItem \/ LoadReturn

SpecLoad == InitLoad /\ [][NextLoad]_vars

----------------------------------------------------------------------------
(* main: the prefix filter, lines 172-173 *)

\* some key of the dict is None: name.startswith raises AttributeError
FilterRaises(d) == \E p \in 1..Len(d) : IsNone(d[p].key)

RECURSIVE FilterPoses(_, _)
FilterPoses(d, prefix) ==
    IF d = <<>> THEN <<>>
    ELSE IF StartsWith(Head(d).key.s, prefix)
         THEN <<Head(d).value>> \o FilterPoses(Tail(d), prefix)
         ELSE FilterPoses(Tail(d), prefix)

Filter ==
    /\ pc = "loaded"
    /\ IF FilterRaises(name_to_tcw)
       THEN Raise("AttributeError") /\ UNCHANGED ref_video_poses
       ELSE /\ ref_video_poses' = FilterPoses(name_to_tcw, ref_video_prefix)
            /\ pc' = "filtered"
            /\ UNCHANGED err
    /\ UNCHANGED <<fileState, data, ref_video_prefix, dt, fps, k, name_to_tcw,
                   interpolated_poses, i, j, num_frames, pre_pose, next_pose,
                   idx, cameras, output_file>>

----------------------------------------------------------------------------
(* interpolate_poses *)

\* pycolmap.Rigid3d(rotation=..., translation=...) of a 4x4 pose
Rigid3d(m) == [t |-> "rigid", rotation |-> Rot(m), translation |-> Trans(m)]

\* pycolmap.Rigid3d.interpolate(pre, next, num / den): the call, by its arguments
Interpolate(pre, next, num, den) ==
    [t |-> "interp", pre |-> pre, next |-> next, num |-> num, den |-> den]

\* int(x) of the float n / d, d > 0: truncation toward zero
PyInt(n, d) == IF n >= 0 THEN n \div d ELSE 0 - ((0 - n) \div d)

\* a variant that rounds up instead of truncating
NumFramesCeil(t, f) == 0 - ((0 - t * f) \div 2)

\* int(dt * fps), dt in halves
NumFrames(t, f) == PyInt(t * f, 2)

\* a variant whose range includes its end
InRangeInclusive(jj, n) == jj <= n

\* range(1, num_frames): whether jj is still in the range
InRange(jj, n) == jj < n

\* a variant that appends the segment's first keyframe
TrailingKeyframePre(pre, next) == pre

\* the pose appended at line 122
TrailingKeyframe(pre, next) == next

\* a variant whose fraction starts at 0
InterpolatedFrameFromZero(pre, next, jj, n) == Interpolate(pre, next, jj - 1, n)

\* the pose appended at line 120; j / num_frames raises for num_frames = 0
InterpolatedFrame(pre, next, jj, n) == Interpolate(pre, next, jj, n)

\* lines 99-105
InterpolateFirst ==
    /\ pc = "filtered"
    /\ IF Len(ref_video_poses) = 0
       THEN Raise("IndexError") /\ UNCHANGED <<interpolated_poses, i>>
       ELSE /\ interpolated_poses' = <<Rigid3d(ref_video_poses[1])>>
            /\ i' = 0
            /\ pc' = "segment"
            /\ UNCHANGED err
    /\ UNCHANGED <<fileState, data, ref_video_prefix, dt, fps, k, name_to_tcw,
                   ref_video_poses, j, num_frames, pre_pose, next_pose,
                   idx, cameras, output_file>>

\* lines 108-116: the head of one iteration of the outer loop
SegmentBegin ==
    /\ pc = "segment"
    /\ i < Len(ref_video_poses) - 1
    /\ num_frames' = NumFrames(dt, fps)
    /\ pre_pose' = Rigid3d(ref_video_poses[i + 1])
    /\ next_pose' = Rigid3d(ref_video_poses[i + 2])
    /\ j' = 1
    /\ pc' = "inner"
    /\ UNCHANGED <<fileState, data, ref_video_prefix, dt, fps, err, k, name_to_tcw,
                   ref_video_poses, interpolated_poses, i, idx, cameras,
                   output_file>>

\* lines 118-120: one iteration of the inner loop
InterpolateStep ==
    /\ pc = "inner"
    /\ InRange(j, num_frames)
    /\ IF num_frames = 0
       THEN Raise("ZeroDivisionError") /\ UNCHANGED <<interpolated_poses, j>>
       ELSE /\ interpolated_poses' =
                   Append(interpolated_poses,
                          InterpolatedFrame(pre_pose, next_pose, j, num_frames))
            /\ j' = j + 1
            /\ UNCHANGED <<pc, err>>
    /\ UNCHANGED <<fileState, data, ref_video_prefix, dt, fps, k, name_to_tcw,
                   ref_video_poses, i, num_frames, pre_pose, next_pose,
                   idx, cameras, output_file>>

\* line 122, and the step of the outer loop
SegmentEnd ==
    /\ pc = "inner"
    /\ ~InRange(j, num_frames)
    /\ interpolated_poses' =
           Append(interpolated_poses, TrailingKeyframe(pre_pose, next_pose))
    /\ i' = i + 1
    /\ pc' = "segment"
    /\ UNCHANGED <<fileState, data, ref_video_prefix, dt, fps, err, k, name_to_tcw,
                   ref_video_poses, j, num_frames, pre_pose, next_pose,
                   idx, cameras, output_file>>

\* line 124
InterpolateReturn ==
    /\ pc = "segment"
    /\ i >= Len(ref_video_poses) - 1
    /\ pc' = "interpolated"
    /\ UNCHANGED <<fileState, data, ref_video_prefix, dt, fps, err, k, name_to_tcw,
                   ref_video_poses, interpolated_poses, i, j, num_frames,
                   pre_pose, next_pose, idx, cameras, output_file>>

NextInterp ==
    InterpolateFirst \/ SegmentBegin \/ InterpolateStep \/ SegmentEnd
    \/ InterpolateReturn

SpecInterp == InitInterp /\ [][NextInterp]_vars

----------------------------------------------------------------------------
(* main: conversion to camera records and save_camera_poses *)

RECURSIVE Digits(_)
Digits(n) == IF n < 10 THEN <<n>> ELSE Append(Digits(n \div 10), n % 10)

\* a variant without padding
FormatPlain(n) == Digits(n)

\* f"{n:06d}", n >= 0: the decimal digits, zero-padded to the width 6
Format06d(n) ==
    LET ds == Digits(n)
    IN  IF Len(ds) >= 6 THEN ds ELSE [p \in 1..(6 - Len(ds)) |-> 0] \o ds

\* fov_to_focal(np.deg2rad(degrees), pixels), by its arguments
FovToFocal(degrees, pixels) ==
    [t |-> "fov_to_focal", fov_degrees |-> degrees, pixels |-> pixels]

\* pose.inverse().matrix()
InverseMatrix(pose) ==
    IF pose.t = "rigid"
    THEN LET Ri == Transpose3(pose.rotation)
         IN  [t |-> "matrix", rotation |-> Ri,
              position |-> Neg3(MatVec3(Ri, pose.translation))]
    ELSE [t |-> "inverse", of |-> pose]

\* t_wc[:, 3].tolist() and t_wc[:3, :3].tolist()
PositionOf(m) ==
    IF m.t = "matrix" THEN [t |-> "list", v |-> m.position]
    ELSE [t |-> "column", of |-> m]
RotationOf(m) ==
    IF m.t = "matrix" THEN [t |-> "list", v |-> m.rotation]
    ELSE [t |-> "block", of |-> m]

\* lines 181-191: the record of the pose at enumerate index n
CameraOf(n, pose) ==
    LET t_wc == InverseMatrix(pose)
        focal_length_x == FovToFocal(fov_degrees, width)
        focal_length_y == focal_length_x
    IN  [id |-> n, img_name |-> Str(Format06d(n)), width |-> width,
         height |-> height, position |-> PositionOf(t_wc),
         rotation |-> RotationOf(t_wc), fy |-> focal_length_y,
         fx |-> focal_length_x]

\* lines 180-192: one iteration of the conversion loop
Convert ==
    /\ pc = "interpolated"
    /\ idx < Len(interpolated_poses)
    /\ cameras' = Append(cameras, CameraOf(idx, interpolated_poses[idx + 1]))
    /\ idx' = idx + 1
    /\ UNCHANGED <<fileState, data, ref_video_prefix, dt, fps, pc, err, k,
                   name_to_tcw, ref_video_poses, interpolated_poses, i, j,
                   num_frames, pre_pose, next_pose, output_file>>

\* lines 195-196 and 134-135: the file is opened for writing and filled
Save ==
    /\ pc = "interpolated"
    /\ idx >= Len(interpolated_poses)
    /\ output_file' = cameras
    /\ pc' = "done"
    /\ UNCHANGED <<fileState, data, ref_video_prefix, dt, fps, err, k,
                   name_to_tcw, ref_video_poses, interpolated_poses, i, j,
                   num_frames, pre_pose, next_pose, idx, cameras>>

Next == NextLoad \/ Filter \/ NextInterp \/ Convert \/ Save

Spec == Init /\ [][Next]_vars

----------------------------------------------------------------------------
(* Properties *)

\* floor(dt * fps), dt in halves
FloorFrames == (dt * fps) \div 2

Max(a, b) == IF a > b THEN a ELSE b

NumPoses == Len(ref_video_poses)

\* the keyframes of the input, as interpolate_poses emits them
Keyframe(p) == Rigid3d(ref_video_poses[p])

\* C1: for n >= 1 keyframes and num_frames = floor(dt * fps) >= 1,
\* interpolate_poses returns exactly 1 + (n - 1) * num_frames poses.
C1_OutputCount ==
    (pc = "interpolated" /\ NumPoses >= 1 /\ FloorFrames >= 1)
        => Len(interpolated_poses) = 1 + (NumPoses - 1) * FloorFrames

\* 3 keyframes at dt = 0.5, fps = 30 have given 31 poses
C1_Witness ==
    /\ pc = "interpolated"
    /\ NumPoses = 3
    /\ dt = dt_config
    /\ fps = fps_config
    /\ Len(interpolated_poses) = 31

\* C2: when floor(dt * fps) is 1, zero or negative, interpolate_poses raises
\* nothing and interpolates nothing: for n >= 1 keyframes the output is
\* exactly the n keyframes, in input order.
C2_KeyframesOnly ==
    (NumPoses >= 1 /\ FloorFrames <= 1)
        => /\ pc # "failed"
           /\ \A q \in 1..Len(interpolated_poses) : interpolated_poses[q].t = "rigid"
           /\ pc = "interpolated"
                => interpolated_poses = [q \in 1..NumPoses |-> Keyframe(q)]

\* a run over 3 keyframes with num_frames = 0 has returned
C2_Witness ==
    /\ pc = "interpolated"
    /\ NumPoses = 3
    /\ num_frames = 0
    /\ Len(interpolated_poses) = 3

\* C3: every input keyframe appears unchanged exactly once and in input
\* order: keyframe p (from 0) sits at output index p * max(1, num_frames),
\* the first element is pose[0], the last is pose[n-1].
C3_KeyframesInPlace ==
    (pc = "interpolated" /\ NumPoses >= 1)
        => LET step == Max(1, FloorFrames)
               out == interpolated_poses
           IN  /\ out[1] = Keyframe(1)
               /\ out[Len(out)] = Keyframe(NumPoses)
               /\ \A q \in 1..NumPoses :
                      /\ (q - 1) * step + 1 <= Len(out)
                      /\ out[(q - 1) * step + 1] = Keyframe(q)
               /\ Cardinality({q \in 1..Len(out) : out[q].t = "rigid"}) = NumPoses

\* 3 keyframes, not all equal, with 2 interpolated frames per segment
C3_Witness ==
    /\ pc = "interpolated"
    /\ NumPoses = 3
    /\ num_frames = 3
    /\ ref_video_poses[1] # ref_video_poses[2]
    /\ ref_video_poses[2] = ref_video_poses[3]

\* C9: in segment s with num_frames >= 2 the interpolated frames between
\* keyframe s and keyframe s+1 are, in order, the interpolations of exactly
\* (pose[s], pose[s+1]) at j / num_frames for j = 1 .. num_frames - 1, the
\* fraction strictly increasing and strictly between 0 and 1.
C9_SegmentFrames ==
    (pc = "interpolated" /\ NumPoses >= 1 /\ FloorFrames >= 2)
        => LET out == interpolated_poses
           IN  /\ \A sg \in 0..(NumPoses - 2) : \A jj \in 1..(FloorFrames - 1) :
                      LET e == out[sg * FloorFrames + jj + 1]
                      IN  /\ e.t = "interp"
                          /\ e.pre = Keyframe(sg + 1)
                          /\ e.next = Keyframe(sg + 2)
                          /\ e.num = jj
                          /\ e.den = FloorFrames
               /\ \A q \in 1..Len(out) :
                      out[q].t = "interp" => 0 < out[q].num /\ out[q].num < out[q].den
               /\ \A q \in 1..(Len(out) - 1) :
                      (out[q].t = "interp" /\ out[q + 1].t = "interp")
                          => out[q].num * out[q + 1].den < out[q + 1].num * out[q].den

\* 3 distinct-endpoint segments with 3 interpolated frames each
C9_Witness ==
    /\ pc = "interpolated"
    /\ NumPoses = 3
    /\ num_frames = 4
    /\ ref_video_poses[1] # ref_video_poses[2]
    /\ ref_video_poses[2] # ref_video_poses[3]
    /\ Len(interpolated_poses) = 9

\* C4: whenever loading fails or the keyframe sequence is empty after the
\* prefix filter, the run ends in failure and the output file is never
\* written: its content is unchanged in every run that fails before the save.
C4_FailureLeavesOutput ==
    /\ err # "" => pc = "failed"
    /\ pc = "failed" => err # "" /\ output_file = PreviousContent
    /\ (fileState # "ok" \/ \E p \in 1..Len(data) : ItemError(data[p]) # "")
           => pc \in {"start", "load_loop", "failed"}
    /\ pc \in {"segment", "inner", "interpolated", "done"} => ref_video_poses # <<>>

\* a run whose loaded keyframes were all filtered out has failed
C4_Witness ==
    /\ pc = "failed"
    /\ err = "IndexError"
    /\ Len(name_to_tcw) > 0
    /\ output_file = PreviousContent

\* a < b in lexicographic order of the code points
LexLess(a, b) ==
    \E p \in 1..Len(b) :
        /\ p - 1 <= Len(a)
        /\ \A q \in 1..(p - 1) : a[q] = b[q]
        /\ (p > Len(a) \/ a[p] < b[p])

DictValues(d) == [p \in 1..Len(d) |-> d[p].value]

\* C5: load_camera_poses returns its mapping in ascending lexicographic
\* string order of the names, whatever the order of the records in the file
\* ("10" before "2"), and that is the order the interpolator sees.
C5_SortedByName ==
    /\ pc = "loaded"
           => /\ \A p, q \in 1..Len(name_to_tcw) :
                     p < q => LexLess(name_to_tcw[p].key.s, name_to_tcw[q].key.s)
              /\ \A p, q \in 1..Len(name_to_tcw) :
                     (name_to_tcw[p].key = Str(<<1, 0>>) /\ name_to_tcw[q].key = Str(<<2>>))
                         => p < q
    /\ (pc = "filtered" /\ ref_video_prefix = <<>>)
           => ref_video_poses = DictValues(name_to_tcw)

\* the file lists "2", "10", "1"; the mapping is "1", "10", "2"
C5_Witness ==
    /\ pc = "loaded"
    /\ Len(data) = 3
    /\ Get(data[1], "img_name") = Str(<<2>>)
    /\ Get(data[2], "img_name") = Str(<<1, 0>>)
    /\ Get(data[3], "img_name") = Str(<<1>>)
    /\ Len(name_to_tcw) = 3
    /\ name_to_tcw[1].key = Str(<<1>>)
    /\ name_to_tcw[2].key = Str(<<1, 0>>)
    /\ name_to_tcw[3].key = Str(<<2>>)

\* the entries of the loaded mapping whose name begins with the prefix
Selected ==
    {p \in 1..Len(name_to_tcw) :
        /\ Len(ref_video_prefix) <= Len(name_to_tcw[p].key.s)
        /\ SubSeq(name_to_tcw[p].key.s, 1, Len(ref_video_prefix)) = ref_video_prefix}

\* C6: the filter passes to the interpolator exactly the loaded transforms
\* whose name starts with the prefix, in the order of the loaded mapping; the
\* empty prefix selects every loaded transform.
C6_PrefixFilter ==
    pc = "filtered"
        => /\ Len(ref_video_poses) = Cardinality(Selected)
           /\ \A p \in Selected :
                  ref_video_poses[Cardinality({q \in Selected : q <= p})]
                      = name_to_tcw[p].value
           /\ ref_video_prefix = <<>> => Len(ref_video_poses) = Len(name_to_tcw)

\* names "1", "10", "2" with prefix "1": the transforms of "1" and "10"
C6_Witness ==
    /\ pc = "filtered"
    /\ ref_video_prefix = <<1>>
    /\ Len(name_to_tcw) = 3
    /\ Len(ref_video_poses) = 2
    /\ ref_video_poses[1] = name_to_tcw[1].value
    /\ ref_video_poses[2] = name_to_tcw[2].value

\* C7: in every successful run the k-th output record (from 0) has id = k
\* and img_name = the 6-digit zero-padded decimal of k, one record for every
\* keyframe and interpolated frame.
C7_SequentialIds ==
    pc = "done"
        => /\ Len(output_file) = Len(interpolated_poses)
           /\ \A q \in 1..Len(output_file) :
                  LET name == output_file[q].img_name
                  IN  /\ output_file[q].id = q - 1
                      /\ name.t = "str"
                      /\ Len(name.s) = 6
                      /\ \A c \in 1..6 : name.s[c] \in 0..9
                      /\ DecimalValue(name.s) = q - 1

\* a saved run of 31 records, the last one named "000030"
C7_Witness ==
    /\ pc = "done"
    /\ Len(output_file) = 31
    /\ output_file[31].img_name = Str(<<0, 0, 0, 0, 3, 0>>)

\* C8 (as claimed): load_camera_poses returns no mapping for an input in
\* which some record lacks img_name, position or rotation, or whose position
\* or rotation has the wrong shape.
C8_MalformedRejected ==
    pc = "loaded"
        => \A p \in 1..Len(data) :
               /\ {"img_name", "position", "rotation"} \subseteq DOMAIN data[p]
               /\ Shape(data[p].position) = <<3>>
               /\ Shape(data[p].rotation) = <<3, 3>>

\* the last record of the file that carries the name
LastIndexOf(name) ==
    CHOOSE p \in 1..Len(data) :
        /\ Get(data[p], "img_name") = name
        /\ \A q \in (p + 1)..Len(data) : Get(data[q], "img_name") # name

\* C10: when several records share a name, load_camera_poses raises no
\* error and keeps one entry for the name, holding the transform of the last
\* such record in file order; the number of entries is the number of distinct
\* names.
C10_LastRecordWins ==
    /\ pc = "loaded"
           => /\ Len(name_to_tcw)
                     = Cardinality({Get(data[p], "img_name") : p \in 1..Len(data)})
              /\ \A p \in 1..Len(name_to_tcw) :
                     name_to_tcw[p].value = ItemTcw(data[LastIndexOf(name_to_tcw[p].key)])
    /\ (fileState = "ok" /\ \A p \in 1..Len(data) : data[p] \in WellFormedItems)
           => pc # "failed"

\* three records of one name, the first and the last with different poses
C10_Witness ==
    /\ pc = "loaded"
    /\ Len(data) = 3
    /\ \A p \in 1..3 : data[p] \in WellFormedItems
    /\ data[1].img_name = data[2].img_name
    /\ data[2].img_name = data[3].img_name
    /\ ItemTcw(data[1]) # ItemTcw(data[3])
    /\ Len(name_to_tcw) = 1
    /\ name_to_tcw[1].value = ItemTcw(data[3])

============================================================================
